---------------------------- MODULE Spec2Model ----------------------------
(***************************************************************************)
(* A model of src/main.py: the stdio JSON-RPC client MCPServerStdio, the   *)
(* result normalisation of call_tool, and the search -> crawl -> verify    *)
(* workflow CompanyVerificationWorkflow.                                   *)
(*                                                                         *)
(* Six specifications share the module:                                    *)
(*   NormSpec  the pure result normalisation of call_tool, applied to      *)
(*             every decoded result of a bounded universe;                 *)
(*   Spec      the client with one caller, its child processes and their   *)
(*             pipes;                                                      *)
(*   FairSpec  Spec with the progress the event loop guarantees;           *)
(*   ConcSpec  the client with two callers sharing one child;              *)
(*   WfSpec    the workflow, run repeatedly on one workflow instance, with *)
(*             call_tool returning any normalised value or raising.        *)
(*   ConcWfSpec  two runs of the workflow on one instance, interleaved at  *)
(*             their call_tool suspensions.                                *)
(***************************************************************************)
EXTENDS Integers, Sequences, FiniteSets, TLC

VARIABLES
    \* MCPServerStdio
    process,          \* self.process: 0 for None, else the child it holds
    cache_tools_list, \* self.cache_tools_list
    tools_cache,      \* self._tools_cache
    next_request_id,  \* self._next_request_id
    initialized,      \* self._initialized
    \* the child processes and their pipes
    child,            \* per child: its state, stdin, stdout and stderr
    \* the coroutines calling the client
    task,             \* per caller: where it is suspended, and in which call
    ret,              \* per caller: how its last call ended
    sent,             \* every request written to a child, in order
    \* the normalisation of call_tool on its own
    normIn,           \* the decoded result handed to the normalisation
    normOut,          \* what the normalisation returned
    normDone,         \* whether the normalisation has run
    \* CompanyVerificationWorkflow
    wf,               \* the fields of the instance
    run,              \* per run: its frame
    wfRet,            \* per run: how it ended
    runsStarted       \* how many runs have been started

clientVars ==
    <<process, cache_tools_list, tools_cache, next_request_id, initialized>>

runVars == <<child, task, ret, sent>>

normVars == <<normIn, normOut, normDone>>

wfVars == <<wf, run, wfRet, runsStarted>>

\* What the client and its children leave alone.
besideClient == <<normVars, wfVars>>

(***************************************************************************)
(* Bounds of the model.                                                    *)
(***************************************************************************)
MaxContentLen == 3      \* longest 'content' list of a decoded result

MaxRequests == 3        \* request ids the callers may consume

MaxProcs == 2           \* child processes that may be spawned

MaxRuns == 2            \* runs of the workflow on one instance

(***************************************************************************)
(* JSON values as Python holds them after json.loads.  Every value is a    *)
(* record tagged by t; the payload field is named after the type, so that  *)
(* two values of different types never compare a string with a number.     *)
(***************************************************************************)
JNull == [t |-> "null"]

JBool(b) == [t |-> "bool", b |-> b]

JTrue == JBool(TRUE)

JFalse == JBool(FALSE)

JNum(n) == [t |-> "num", n |-> n]

\* A Python str; its text is a sequence of lexical tokens (see below).
JStr(s) == [t |-> "str", s |-> s]

JList(items) == [t |-> "list", items |-> items]

\* A Python dict; m is a function from its keys to their values.
JMap(m) == [t |-> "map", m |-> m]

EmptyMap == [k \in {} |-> JNull]

IsMap(v) == v.t = "map"

IsList(v) == v.t = "list"

IsStr(v) == v.t = "str"

IsNum(v) == v.t = "num"

\* key in d
HasKey(d, key) == key \in DOMAIN d.m

\* d.get(key, default) on a dict d
Get(d, key, default) == IF key \in DOMAIN d.m THEN d.m[key] ELSE default

\* Python's truth value of v: bool(v)
Truthy(v) ==
    CASE v.t = "null" -> FALSE
      [] v.t = "bool" -> v.b
      [] v.t = "num"  -> v.n # 0
      [] v.t = "str"  -> Len(v.s) > 0
      [] v.t = "list" -> Len(v.items) > 0
      [] v.t = "map"  -> DOMAIN v.m # {}

(***************************************************************************)
(* Text.  The characters of a string are modelled after lexing: a text is  *)
(* a sequence of tokens, each a punctuation mark of JSON, a literal, a     *)
(* number, a quoted string (holding the text between its quotes) or a      *)
(* word, which is any other run of characters (prose, a URL).              *)
(***************************************************************************)
Punct(p) == [k |-> p]

NumTok(n) == [k |-> "num", n |-> n]

StrTok(s) == [k |-> "str", s |-> s]

WordTok(w) == [k |-> "word", w |-> w]

\* The text that is the single word w, and the Python str holding it.
Word(w) == <<WordTok(w)>>

PyStr(w) == JStr(Word(w))

\* The dict key a quoted string stands for.
KeyOf(s) == IF Len(s) = 1 /\ s[1].k = "word" THEN s[1].w ELSE "?"

\* The order in which json.dumps writes the keys this model uses.
KeyOrder ==
    <<"success", "results", "pages", "verifications", "best_match",
      "linkedin_url", "linkedin", "match_count", "url", "content",
      "type", "text", "tools", "match_score", "company_name",
      "official_website", "urls", "title", "?">>

RECURSIVE JsonDumps(_)
RECURSIVE DumpItems(_, _)
RECURSIVE DumpMembers(_, _, _)

\* The items of a list from index i on, separated by commas.
DumpItems(items, i) ==
    IF i > Len(items) THEN <<>>
    ELSE (IF i > 1 THEN <<Punct(",")>> ELSE <<>>)
         \o JsonDumps(items[i]) \o DumpItems(items, i + 1)

\* The members of a dict whose keys are at KeyOrder[i..]; first says
\* whether none has been written yet.
DumpMembers(m, i, first) ==
    IF i > Len(KeyOrder) THEN <<>>
    ELSE IF KeyOrder[i] \in DOMAIN m
         THEN (IF first THEN <<>> ELSE <<Punct(",")>>)
              \o <<StrTok(Word(KeyOrder[i])), Punct(":")>>
              \o JsonDumps(m[KeyOrder[i]])
              \o DumpMembers(m, i + 1, FALSE)
         ELSE DumpMembers(m, i + 1, first)

\* json.dumps(v): the text of the JSON encoding of v.
JsonDumps(v) ==
    CASE v.t = "null" -> <<Punct("null")>>
      [] v.t = "bool" -> IF v.b THEN <<Punct("true")>> ELSE <<Punct("false")>>
      [] v.t = "num"  -> <<NumTok(v.n)>>
      [] v.t = "str"  -> <<StrTok(v.s)>>
      [] v.t = "list" -> <<Punct("[")>> \o DumpItems(v.items, 1) \o <<Punct("]")>>
      [] v.t = "map"  -> <<Punct("{")>> \o DumpMembers(v.m, 1, TRUE) \o <<Punct("}")>>

\* The outcome of a parse: whether it succeeded, the value, and the index
\* of the first token after it.
ParseFail == [ok |-> FALSE, v |-> JNull, nx |-> 0]

ParseOk(v, nx) == [ok |-> TRUE, v |-> v, nx |-> nx]

TokIs(toks, i, p) == i <= Len(toks) /\ toks[i].k = p

RECURSIVE ParseValue(_, _)
RECURSIVE ParseItems(_, _, _)
RECURSIVE ParseMembers(_, _, _)

\* The items of a list after '[' or ',': a value, then ',' or ']'.
ParseItems(toks, i, acc) ==
    LET r == ParseValue(toks, i) IN
    IF ~r.ok THEN ParseFail
    ELSE IF TokIs(toks, r.nx, ",")
         THEN ParseItems(toks, r.nx + 1, Append(acc, r.v))
    ELSE IF TokIs(toks, r.nx, "]")
         THEN ParseOk(JList(Append(acc, r.v)), r.nx + 1)
    ELSE ParseFail

\* The members of a dict after '{' or ',': "key" : value, then ',' or '}'.
\* A repeated key keeps its last value.
ParseMembers(toks, i, acc) ==
    IF ~(TokIs(toks, i, "str") /\ TokIs(toks, i + 1, ":")) THEN ParseFail
    ELSE LET r == ParseValue(toks, i + 2)
             key == KeyOf(toks[i].s)
             m == [x \in DOMAIN acc \cup {key} |->
                     IF x = key THEN r.v ELSE acc[x]]
         IN IF ~r.ok THEN ParseFail
            ELSE IF TokIs(toks, r.nx, ",") THEN ParseMembers(toks, r.nx + 1, m)
            ELSE IF TokIs(toks, r.nx, "}") THEN ParseOk(JMap(m), r.nx + 1)
            ELSE ParseFail

\* One JSON value starting at token i.
ParseValue(toks, i) ==
    IF i > Len(toks) THEN ParseFail
    ELSE LET tok == toks[i] IN
         CASE tok.k = "null"  -> ParseOk(JNull, i + 1)
           [] tok.k = "true"  -> ParseOk(JTrue, i + 1)
           [] tok.k = "false" -> ParseOk(JFalse, i + 1)
           [] tok.k = "num"   -> ParseOk(JNum(tok.n), i + 1)
           [] tok.k = "str"   -> ParseOk(JStr(tok.s), i + 1)
           [] tok.k = "["     -> IF TokIs(toks, i + 1, "]")
                                 THEN ParseOk(JList(<<>>), i + 2)
                                 ELSE ParseItems(toks, i + 1, <<>>)
           [] tok.k = "{"     -> IF TokIs(toks, i + 1, "}")
                                 THEN ParseOk(JMap(EmptyMap), i + 2)
                                 ELSE ParseMembers(toks, i + 1, EmptyMap)
           [] OTHER           -> ParseFail

\* json.loads(text): the value, or a failure (json.JSONDecodeError) when the
\* text is not exactly one JSON value.
JsonLoads(text) ==
    LET r == ParseValue(text, 1) IN
    IF r.ok /\ r.nx = Len(text) + 1 THEN r ELSE ParseFail

(***************************************************************************)
(* The result normalisation of call_tool.                                  *)
(***************************************************************************)
RECURSIVE ScanContent(_, _, _)

\* A slip the loop could have: it stops at the first 'text' item even when
\* its text is empty, and returns the result as it is.
ScanContentFirstOnly(items, i, result) ==
    IF i > Len(items) THEN result
    ELSE LET item == items[i] IN
         IF IsMap(item) /\ Get(item, "type", JNull) = PyStr("text")
         THEN LET text == Get(item, "text", JStr(<<>>)) IN
              IF Truthy(text)
              THEN IF IsStr(text) /\ JsonLoads(text.s).ok
                   THEN JsonLoads(text.s).v
                   ELSE text
              ELSE result
         ELSE ScanContent(items, i + 1, result)

\* The for loop over content: the first dict item of type 'text' with a
\* truthy text decides; json.loads of it, or the text itself when that
\* raises (not JSON, or not a str at all).
ScanContent(items, i, result) ==
    IF i > Len(items) THEN result
    ELSE LET item == items[i] IN
         IF IsMap(item) /\ Get(item, "type", JNull) = PyStr("text")
         THEN LET text == Get(item, "text", JStr(<<>>)) IN
              IF Truthy(text)
              THEN IF IsStr(text) /\ JsonLoads(text.s).ok
                   THEN JsonLoads(text.s).v
                   ELSE text
              ELSE ScanContent(items, i + 1, result)
         ELSE ScanContent(items, i + 1, result)

\* What call_tool returns for the decoded result of _send_request.
Normalize(result) ==
    IF IsMap(result) /\ HasKey(result, "content")
    THEN LET content == Get(result, "content", JList(<<>>)) IN
         IF IsList(content) /\ Len(content.items) > 0
         THEN ScanContent(content.items, 1, result)
         ELSE result
    ELSE result

NormIdle == normIn = JNull /\ normOut = JNull /\ normDone = FALSE

(***************************************************************************)
(* MCPServerStdio, its children and its callers.                           *)
(*                                                                         *)
(* A caller is a coroutine; an action is what it runs between two          *)
(* suspensions.  create_subprocess_exec and stdin.drain() touch no field   *)
(* of the client while they are suspended, so each is taken with the code  *)
(* after it; the suspensions kept are stdout.readline() under wait_for,    *)
(* stderr.read(1024) and process.wait().  The 30 second deadline of        *)
(* wait_for is the event of its expiry, possible while no line is there.   *)
(***************************************************************************)
Tasks == {"t1", "t2"}

\* The callers of the sequential specification: one call at a time.
Callers == {"t1"}

NoProc == 0

Children == 1..MaxProcs

\* What the child answers to initialize.
InitResult == JMap([protocolVersion |-> PyStr("0.5.0")])

\* What the child may answer to tools/list.
ListResults ==
    { JMap([tools |-> JList(<<JMap([name |-> PyStr("search_company")])>>)]),
      JMap(EmptyMap) }

\* What the child may answer to tools/call: a content envelope and a
\* direct payload.
CallResults ==
    { JMap([content |-> JList(<<
          JMap([type |-> PyStr("text"),
                text |-> JStr(JsonDumps(
                    JMap([success |-> JTrue, results |-> JList(<<>>)])))])
        >>)]),
      JMap([success |-> JFalse]) }

ResultsFor(method) ==
    CASE method = "initialize" -> {InitResult}
      [] method = "tools/list" -> ListResults
      [] method = "tools/call" -> CallResults

\* A response line on a child's stdout.  kind is "result" (a frame with a
\* result), "noresult" (a frame with neither result nor error), "error" (a
\* frame with an error key) or "garbage" (not JSON).
Line(kind, id, result) == [kind |-> kind, id |-> id, result |-> result]

UnbornChild ==
    [state |-> "unborn", stdin |-> <<>>, stdout |-> <<>>, stderr |-> "silent"]

\* A child once it has exited: what it had not read is lost, what it had
\* written can still be read, and its stderr no longer blocks a read.
Exited(ch) ==
    [ch EXCEPT !.state = "exited", !.stdin = <<>>,
               !.stderr = IF @ = "silent" THEN "eof" ELSE @]

\* A child that has exited and that nobody reads any more.
DeadChild ==
    [state |-> "exited", stdin |-> <<>>, stdout |-> <<>>, stderr |-> "eof"]

IdleTask ==
    [pc |-> "idle", op |-> "none", id |-> 0, proc |-> NoProc,
     err |-> "none", after |-> "none"]

\* An exception: its class, its message, and what of the exchange it holds.
Exc(type, message, carries) ==
    [type |-> type, message |-> message, carries |-> carries]

NoExc == Exc("none", "none", {})

\* The exception each raise of the client raises.  Those of _send_request
\* for a line that is no JSON, an error frame, an empty line and a timeout
\* are all built by Exception(message); the undecodable line is logged and
\* the message holds the decoder's error.
ExceptionOf(err) ==
    CASE err = "parse" ->
            Exc("Exception", "cannot parse JSON response", {"decode_error"})
      [] err = "error_frame" ->
            Exc("Exception", "MCP server error", {"error"})
      [] err = "eof" -> Exc("Exception", "empty response", {})
      [] err = "timeout" ->
            Exc("Exception", "timed out waiting for the response", {})
      [] err = "not_started" ->
            Exc("RuntimeError", "MCP server not started", {})
      [] err = "busy" ->
            Exc("RuntimeError", "another coroutine is already waiting", {})
      [] err = "attr" -> Exc("AttributeError", "NoneType has no stderr", {})
      [] err = "broken_pipe" -> Exc("ConnectionResetError", "connection lost", {})
      [] err = "spawn" -> Exc("OSError", "cannot start the child", {})

NoRet ==
    [op |-> "none", status |-> "none", err |-> "none", exc |-> NoExc,
     value |-> JNull, raw |-> JNull, reqId |-> 0, respId |-> 0,
     proc |-> NoProc, io |-> FALSE, after |-> "none"]

ClientInit ==
    /\ process = NoProc
    /\ cache_tools_list \in BOOLEAN
    /\ tools_cache = JNull
    /\ next_request_id = 1
    /\ initialized = FALSE
    /\ child = [c \in Children |-> UnbornChild]
    /\ task = [t \in Tasks |-> IdleTask]
    /\ ret = [t \in Tasks |-> NoRet]
    /\ sent = <<>>

\* self._next_request_id += 1
NextIdReused(id) == id

NextId(id) == id + 1

\* What the call t made before this one was, for the call it starts now: a
\* list_tools that returned, an invalidate_tools_cache, or anything else.
Prev(t) ==
    CASE ret[t].op = "list_tools" /\ ret[t].status = "value" -> "list_ok"
      [] ret[t].op = "invalidate" -> "invalidate"
      [] OTHER -> "other"

\* The caller t is free to make a call.
Idle(t) == task[t].pc = "idle"

\* The call of t ends by raising err.
Raises(t, op, err, id, proc, io, after) ==
    /\ task' = [task EXCEPT ![t] = IdleTask]
    /\ ret' = [ret EXCEPT ![t] =
                 [NoRet EXCEPT !.op = op, !.status = "raised", !.err = err,
                               !.exc = ExceptionOf(err),
                               !.reqId = id, !.io = io,
                               !.proc = IF op = "start" THEN proc ELSE NoProc,
                               !.after = IF op = "list_tools" THEN after
                                         ELSE "other"]]

\* The call of t returns value.
Returns(t, op, value, raw, id, respId, proc, io, after) ==
    /\ task' = [task EXCEPT ![t] = IdleTask]
    /\ ret' = [ret EXCEPT ![t] =
                 [NoRet EXCEPT !.op = op, !.status = "value",
                               !.value = value, !.raw = raw, !.reqId = id,
                               !.respId = respId, !.io = io,
                               !.proc = IF op = "start" THEN proc ELSE NoProc,
                               !.after = IF op = "list_tools" THEN after
                                         ELSE "other"]]

\* Another caller is suspended in readline() on child p with no line to
\* read: a second readline() on that stream raises RuntimeError at once.
StdoutBusy(t, p) ==
    \E u \in Tasks \ {t} :
        /\ task[u].pc = "await_line" /\ task[u].proc = p
        /\ child[p].stdout = <<>> /\ child[p].state = "running"

\* Another caller is suspended in stderr.read() on child p; a second read
\* raises RuntimeError at once.
StderrBusy(t, p) ==
    \E u \in Tasks \ {t} :
        /\ task[u].pc \in {"stderr_eof", "stderr_exc", "stderr_timeout"}
        /\ task[u].proc = p
        /\ child[p].stderr = "silent"

\* _send_request up to its readline, with p the value of self.process and
\* ch the children: raise when there is no process, else write the request
\* and drain.  On a child that has exited the write is lost, and drain
\* either raises or returns.
send_request(t, op, method, id, after, p, ch) ==
    IF p = NoProc
    THEN /\ Raises(t, op, "not_started", id, NoProc, FALSE, after)
         /\ child' = ch
         /\ UNCHANGED sent
    ELSE \/ /\ ch[p].state = "running"
            /\ child' = [ch EXCEPT ![p].stdin =
                            Append(@, [id |-> id, method |-> method])]
            /\ sent' = Append(sent, [id |-> id, method |-> method, proc |-> p])
            /\ task' = [task EXCEPT ![t] =
                          IF StdoutBusy(t, p)
                          THEN [pc |-> "stderr_exc", op |-> op, id |-> id,
                                proc |-> p, err |-> "busy", after |-> after]
                          ELSE [pc |-> "await_line", op |-> op, id |-> id,
                                proc |-> p, err |-> "none", after |-> after]]
            /\ ret' = [ret EXCEPT ![t] = NoRet]
         \/ /\ ch[p].state = "exited"
            /\ child' = ch
            /\ sent' = Append(sent, [id |-> id, method |-> method, proc |-> p])
            /\ task' = [task EXCEPT ![t] =
                          [pc |-> "await_line", op |-> op, id |-> id,
                           proc |-> p, err |-> "none", after |-> after]]
            /\ ret' = [ret EXCEPT ![t] = NoRet]
         \/ /\ ch[p].state = "exited"
            /\ Raises(t, op, "broken_pipe", id, p, FALSE, after)
            /\ child' = ch
            /\ UNCHANGED sent

\* An _initialize that sends the handshake request every time.
InitializeAgain(t, op, p, ch) ==
    /\ next_request_id <= MaxRequests
    /\ next_request_id' = NextId(next_request_id)
    /\ send_request(t, op, "initialize", next_request_id, Prev(t), p, ch)

\* _initialize: nothing once initialized, else the handshake request.
initialize_body(t, op, p, ch) ==
    IF initialized
    THEN /\ Returns(t, op, JNull, JNull, 0, 0, p, FALSE, Prev(t))
         /\ child' = ch
         /\ UNCHANGED <<sent, next_request_id>>
    ELSE /\ next_request_id <= MaxRequests
         /\ next_request_id' = NextId(next_request_id)
         /\ send_request(t, op, "initialize", next_request_id, Prev(t), p, ch)

\* __aenter__: spawn the child, hold it, then _initialize.
aenter(t) ==
    /\ Idle(t)
    /\ \E c \in Children :
          /\ child[c].state = "unborn"
          /\ \A d \in Children : d < c => child[d].state # "unborn"
          /\ process' = c
          /\ initialize_body(t, "start", c,
                             [child EXCEPT ![c].state = "running"])
    /\ UNCHANGED <<cache_tools_list, tools_cache, initialized>>
    /\ UNCHANGED besideClient

\* __aenter__ when create_subprocess_exec raises: nothing is held.
aenter_spawn_fails(t) ==
    /\ Idle(t)
    /\ Raises(t, "start", "spawn", 0, NoProc, FALSE, Prev(t))
    /\ UNCHANGED <<clientVars, child, sent>>
    /\ UNCHANGED besideClient

\* _initialize called on its own.
initialize(t) ==
    /\ Idle(t)
    /\ initialize_body(t, "initialize", process, child)
    /\ UNCHANGED <<process, cache_tools_list, tools_cache, initialized>>
    /\ UNCHANGED besideClient

\* list_tools: the cached list when caching is on and the cache is truthy,
\* else a tools/list request.
list_tools(t) ==
    /\ Idle(t)
    /\ IF cache_tools_list /\ Truthy(tools_cache)
       THEN /\ Returns(t, "list_tools", tools_cache, tools_cache, 0, 0,
                       process, FALSE, Prev(t))
            /\ UNCHANGED <<child, sent, next_request_id>>
       ELSE /\ next_request_id <= MaxRequests
            /\ next_request_id' = NextId(next_request_id)
            /\ send_request(t, "list_tools", "tools/list", next_request_id,
                            Prev(t), process, child)
    /\ UNCHANGED <<process, cache_tools_list, tools_cache, initialized>>
    /\ UNCHANGED besideClient

\* A call_tool that looks for the process before it takes a request id.
CallToolChecksFirst(t) ==
    /\ Idle(t)
    /\ next_request_id <= MaxRequests
    /\ next_request_id' = IF process = NoProc THEN next_request_id
                          ELSE NextId(next_request_id)
    /\ send_request(t, "call_tool", "tools/call", next_request_id, Prev(t),
                    process, child)
    /\ UNCHANGED <<process, cache_tools_list, tools_cache, initialized>>
    /\ UNCHANGED besideClient

\* call_tool up to the readline of its request.
call_tool(t) ==
    /\ Idle(t)
    /\ next_request_id <= MaxRequests
    /\ next_request_id' = NextId(next_request_id)
    /\ send_request(t, "call_tool", "tools/call", next_request_id, Prev(t),
                    process, child)
    /\ UNCHANGED <<process, cache_tools_list, tools_cache, initialized>>
    /\ UNCHANGED besideClient

\* invalidate_tools_cache
invalidate_tools_cache(t) ==
    /\ Idle(t)
    /\ tools_cache' = JNull
    /\ Returns(t, "invalidate", JNull, JNull, 0, 0, NoProc, FALSE, "other")
    /\ UNCHANGED <<process, cache_tools_list, next_request_id, initialized,
                   child, sent>>
    /\ UNCHANGED besideClient

\* The failure paths of _send_request that read stderr before raising
\* evaluate self.process.stderr: with no process held that raises at once
\* (AttributeError), else the caller waits on that child's stderr.
to_stderr(t, pc, err) ==
    IF process = NoProc
    THEN Raises(t, task[t].op, "attr", task[t].id, NoProc, TRUE,
                task[t].after)
    ELSE IF StderrBusy(t, process)
    THEN Raises(t, task[t].op, "busy", task[t].id, process, TRUE,
                task[t].after)
    ELSE /\ task' = [task EXCEPT ![t].pc = pc, ![t].err = err,
                                 ![t].proc = process]
         /\ UNCHANGED ret

\* The caller resumes with the line that readline() returns: the next line
\* of the child's stdout, or the empty line when the child has exited and
\* nothing is left.  Then the rest of _send_request and of the call.
read_line(t) ==
    /\ task[t].pc = "await_line"
    /\ LET p == task[t].proc
           op == task[t].op
       IN \/ /\ child[p].stdout = <<>>
             /\ child[p].state = "exited"
             /\ to_stderr(t, "stderr_eof", "eof")
             /\ UNCHANGED <<clientVars, child, sent>>
          \/ /\ child[p].stdout # <<>>
             /\ child' = [child EXCEPT ![p].stdout = Tail(@)]
             /\ LET line == Head(child[p].stdout)
                    result == IF line.kind = "result" THEN line.result
                              ELSE JNull
                IN CASE line.kind = "garbage" ->
                          /\ to_stderr(t, "stderr_exc", "parse")
                          /\ UNCHANGED clientVars
                     [] line.kind = "error" ->
                          /\ to_stderr(t, "stderr_exc", "error_frame")
                          /\ UNCHANGED clientVars
                     [] OTHER ->
                          /\ initialized' =
                                IF op \in {"start", "initialize"} THEN TRUE
                                ELSE initialized
                          /\ tools_cache' =
                                IF op = "list_tools" /\ cache_tools_list
                                THEN result ELSE tools_cache
                          /\ Returns(t, op,
                                IF op = "call_tool" THEN Normalize(result)
                                ELSE result,
                                result, task[t].id, line.id, p, TRUE,
                                task[t].after)
                          /\ UNCHANGED <<process, cache_tools_list,
                                         next_request_id>>
             /\ UNCHANGED sent
    /\ UNCHANGED besideClient

\* wait_for gives up: no line came within the deadline.
timeout(t) ==
    /\ task[t].pc = "await_line"
    /\ child[task[t].proc].stdout = <<>>
    /\ child[task[t].proc].state = "running"
    /\ to_stderr(t, "stderr_timeout", "timeout")
    /\ UNCHANGED <<clientVars, child, sent>>
    /\ UNCHANGED besideClient

\* stderr.read(1024) returns: there is data, or the stream is at its end
\* (after the child's exit what it had written is still read, and every
\* read returns at once).
\* After the read for an empty line the exception raised is handled by a
\* second read; after the others the call raises.
stderr_read(t) ==
    /\ task[t].pc \in {"stderr_eof", "stderr_exc", "stderr_timeout"}
    /\ LET p == task[t].proc IN
       /\ child[p].stderr # "silent"
       /\ child' = [child EXCEPT ![p].stderr =
                       IF child[p].state = "running" /\ @ = "data"
                       THEN "silent" ELSE @]
    /\ IF task[t].pc = "stderr_eof"
       THEN to_stderr(t, "stderr_exc", "eof")
       ELSE Raises(t, task[t].op, task[t].err, task[t].id, task[t].proc,
                   TRUE, task[t].after)
    /\ UNCHANGED <<clientVars, sent>>
    /\ UNCHANGED besideClient

\* A close that fails when no process is held.
AexitRaisesWhenClosed(t) ==
    /\ Idle(t)
    /\ IF process = NoProc
       THEN /\ Raises(t, "close", "not_started", 0, NoProc, FALSE, Prev(t))
            /\ UNCHANGED child
       ELSE /\ child' = [child EXCEPT ![process] = Exited(@)]
            /\ task' = [task EXCEPT ![t] =
                  [IdleTask EXCEPT !.pc = "wait_exit", !.op = "close",
                                   !.proc = process, !.after = Prev(t)]]
            /\ ret' = [ret EXCEPT ![t] = NoRet]
    /\ UNCHANGED <<clientVars, sent>>
    /\ UNCHANGED besideClient

\* __aexit__ up to process.wait(): nothing when no process is held, else
\* terminate() (its error on a dead child is swallowed).
aexit(t) ==
    /\ Idle(t)
    /\ IF process = NoProc
       THEN /\ Returns(t, "close", JNull, JNull, 0, 0, NoProc, FALSE,
                       Prev(t))
            /\ UNCHANGED child
       ELSE /\ child' = [child EXCEPT ![process] = Exited(@)]
            /\ task' = [task EXCEPT ![t] =
                  [IdleTask EXCEPT !.pc = "wait_exit", !.op = "close",
                                   !.proc = process, !.after = Prev(t)]]
            /\ ret' = [ret EXCEPT ![t] = NoRet]
    /\ UNCHANGED <<clientVars, sent>>
    /\ UNCHANGED besideClient

\* A close that also drops the cached tool list.
AexitDoneClearsCache(t) ==
    /\ task[t].pc = "wait_exit"
    /\ process' = NoProc
    /\ tools_cache' = JNull
    /\ Returns(t, "close", JNull, JNull, 0, 0, task[t].proc, FALSE,
               task[t].after)
    /\ UNCHANGED <<cache_tools_list, next_request_id, initialized, sent,
                   child>>
    /\ UNCHANGED besideClient

\* __aexit__ after process.wait(): self.process = None.
aexit_done(t) ==
    /\ task[t].pc = "wait_exit"
    /\ process' = NoProc
    /\ Returns(t, "close", JNull, JNull, 0, 0, task[t].proc, FALSE,
               task[t].after)
    /\ child' = [c \in Children |->
                    IF /\ child[c].state = "exited"
                       /\ \A u \in Tasks \ {t} : task[u].proc # c
                    THEN DeadChild ELSE child[c]]
    /\ UNCHANGED <<cache_tools_list, tools_cache, next_request_id,
                   initialized, sent>>
    /\ UNCHANGED besideClient

\* The child answers the oldest request it has not answered: one line, of
\* one of the kinds given.
respond(c, kinds) ==
    /\ child[c].state = "running"
    /\ child[c].stdin # <<>>
    /\ LET rq == Head(child[c].stdin) IN
       \E kind \in kinds :
       \E result \in ResultsFor(rq.method) :
          /\ kind # "result" => result = CHOOSE r \in ResultsFor(rq.method) : TRUE
          /\ child' = [child EXCEPT ![c].stdin = Tail(@),
                          ![c].stdout = Append(@,
                              Line(kind, IF kind = "garbage" THEN 0 ELSE rq.id,
                                   IF kind = "result" THEN result ELSE JNull))]
    /\ UNCHANGED <<clientVars, task, ret, sent>>
    /\ UNCHANGED besideClient

child_respond(c) == respond(c, {"result", "noresult", "error", "garbage"})

\* The child answers with a well-formed frame: a result or an error.
child_answers(c) == respond(c, {"result", "error"})

\* The child writes to its stderr.
child_stderr_write(c) ==
    /\ child[c].state = "running"
    /\ child[c].stderr = "silent"
    /\ child' = [child EXCEPT ![c].stderr = "data"]
    /\ UNCHANGED <<clientVars, task, ret, sent>>
    /\ UNCHANGED besideClient

\* The child closes its stderr and keeps running.
child_stderr_close(c) ==
    /\ child[c].state = "running"
    /\ child[c].stderr = "silent"
    /\ child' = [child EXCEPT ![c].stderr = "eof"]
    /\ UNCHANGED <<clientVars, task, ret, sent>>
    /\ UNCHANGED besideClient

\* The child exits on its own: its pipes reach their end.
child_exit(c) ==
    /\ child[c].state = "running"
    /\ child' = [child EXCEPT ![c] = Exited(@)]
    /\ UNCHANGED <<clientVars, task, ret, sent>>
    /\ UNCHANGED besideClient

(***************************************************************************)
(* CompanyVerificationWorkflow.  The fields of the instance are the record *)
(* wf; a run of run_complete_workflow is a coroutine that is suspended in  *)
(* each call_tool, which returns any normalised value or raises.           *)
(***************************************************************************)
Runs == {"r1", "r2"}

\* The runs of the sequential specification: one run at a time.
SeqRuns == {"r1"}

\* A field that has not been assigned, and a key a dict does not have.
Unset == [t |-> "unset"]

Absent == [t |-> "absent"]

\* The arguments of a run: company_name and official_website.
ArgSets ==
    { [company_name |-> PyStr("acme"), official_website |-> JNull],
      [company_name |-> PyStr("globex"),
       official_website |-> PyStr("https://globex.example")] }

UrlAcme == PyStr("https://www.linkedin.com/company/acme")

UrlAcmeUpper == PyStr("HTTPS://LinkedIn.com/Company/acme")

\* A personal profile, which is no company page.
UrlProfile == PyStr("linkedin.com/in/acme")

\* Search results of every kind: company pages in two spellings, a profile
\* and a result without a url.
MixedResults ==
    JList(<<JMap([url |-> UrlAcmeUpper]), JMap([url |-> UrlProfile]),
            JMap([title |-> PyStr("Acme")]), JMap([url |-> UrlAcme])>>)

Page == JMap([url |-> UrlAcme, content |-> PyStr("c1")])

Page2 == JMap([url |-> UrlAcme, content |-> PyStr("c2")])

Verdict == JMap([url |-> UrlAcme, match_score |-> JNum(9)])

\* What call_tool may return for search_company.
SearchReturns ==
    { JMap([success |-> JTrue, results |-> JList(<<JMap([url |-> UrlAcme])>>)]),
      JMap([success |-> JTrue, results |-> JList(<<>>)]),
      JStr(JsonDumps(JMap([success |-> JTrue,
                           results |-> JList(<<JMap([url |-> UrlAcmeUpper])>>)]))),
      JNull,
      JMap([success |-> JTrue, results |-> JNull]),
      JMap([success |-> JTrue, results |-> JList(<<JMap([url |-> JNull])>>)]),
      JMap([success |-> JTrue, results |-> JList(<<JNum(7)>>)]),
      PyStr("oops"),
      JMap([success |-> JFalse, results |-> JList(<<JMap([url |-> UrlAcme])>>)]),
      JStr(JsonDumps(JMap([success |-> JFalse,
                           results |-> JList(<<JMap([url |-> UrlAcme])>>)]))),
      JMap([success |-> JTrue, results |-> MixedResults]),
      JMap([success |-> JTrue,
            results |-> JList(<<JMap([url |-> UrlProfile])>>)]) }

\* What call_tool may return for crawl_multiple_pages.
CrawlReturns ==
    { JMap([success |-> JTrue, results |-> JList(<<Page>>)]),
      JMap([success |-> JTrue, pages |-> JList(<<Page>>)]),
      JStr(JsonDumps(JMap([success |-> JTrue, results |-> JList(<<Page>>)]))),
      JMap([success |-> JTrue,
            results |-> JList(<<JMap([url |-> UrlAcme, content |-> JNull])>>)]),
      JMap([success |-> JTrue, results |-> JList(<<>>)]),
      JNull,
      JMap([success |-> JTrue, results |-> JList(<<JNum(7)>>)]),
      JStr(JsonDumps(JMap([success |-> JTrue, pages |-> JList(<<Page>>)]))),
      JMap([success |-> JTrue, pages |-> JList(<<Page, Page2>>)]),
      JMap([success |-> JTrue, results |-> JList(<<Page>>),
            pages |-> JList(<<Page2>>)]),
      JStr(JsonDumps(JMap([success |-> JTrue, results |-> JList(<<Page>>),
                           pages |-> JList(<<Page2>>)]))),
      JMap([success |-> JFalse, results |-> JList(<<Page>>)]),
      JStr(JsonDumps(JMap([success |-> JFalse, results |-> JList(<<Page>>)]))) }

\* What call_tool may return for verify_multiple_contents.
VerifyReturns ==
    { JMap([success |-> JTrue, results |-> JList(<<Verdict>>),
            linkedin |-> JTrue, match_count |-> JNum(1),
            best_match |-> Verdict, linkedin_url |-> UrlAcme]),
      JMap([success |-> JTrue, verifications |-> JList(<<Verdict>>),
            linkedin |-> JTrue, match_count |-> JNum(1),
            best_match |-> Verdict]),
      JStr(JsonDumps(JMap([success |-> JTrue, results |-> JList(<<Verdict>>),
                           linkedin |-> JTrue, match_count |-> JNum(1),
                           best_match |-> Verdict]))),
      JMap([success |-> JTrue, results |-> JList(<<Verdict>>),
            linkedin |-> JNull, match_count |-> JNum(1)]),
      JMap([success |-> JTrue, results |-> JList(<<Verdict>>),
            linkedin |-> JTrue, match_count |-> PyStr("many")]),
      JMap([success |-> JTrue, results |-> JList(<<Verdict>>),
            linkedin |-> JTrue, match_count |-> JNum(0)]),
      JMap([success |-> JTrue, results |-> JList(<<Verdict>>),
            linkedin |-> PyStr("yes"), match_count |-> JNum(2)]),
      JNull,
      JMap([success |-> JFalse, results |-> JList(<<Verdict>>),
            linkedin |-> JTrue, match_count |-> JNum(1)]),
      JStr(JsonDumps(JMap([success |-> JFalse, results |-> JList(<<Verdict>>),
                           linkedin |-> JTrue, match_count |-> JNum(1)]))),
      JStr(JsonDumps(JMap([success |-> JTrue,
                           verifications |-> JList(<<Verdict>>),
                           linkedin |-> JTrue, match_count |-> JNum(1),
                           best_match |-> Verdict]))) }

\* __init__
WfInit0 ==
    [search_results |-> JList(<<>>), crawl_results |-> JList(<<>>),
     verify_results |-> JList(<<>>), best_match |-> Unset,
     linkedin_url |-> Unset, linkedin_found |-> Unset, match_count |-> Unset]

\* len(v) raises TypeError for a value without a length.
HasLen(v) == v.t \in {"list", "str", "map"}

\* for x in v raises TypeError for a value that cannot be iterated.
Iterable(v) == v.t \in {"list", "str", "map"}

\* What for x in v yields: the items of a list; for a dict its keys and for
\* a str its characters, which are strs.
Elems(v) ==
    IF IsList(v) THEN v.items
    ELSE IF Truthy(v) THEN <<PyStr("?")>> ELSE <<>>

\* A lower() that leaves every letter as it is.
LowerWordAsIs(w) == w

\* url.lower()
LowerWord(w) ==
    IF w = "HTTPS://LinkedIn.com/Company/acme"
    THEN "https://linkedin.com/company/acme" ELSE w

\* "linkedin.com/company/" in text, for a lower-cased text
HasCompanyPath(w) ==
    w \in {"https://linkedin.com/company/acme",
           "https://www.linkedin.com/company/acme"}

IsCompanyUrl(text) ==
    Len(text) = 1 /\ text[1].k = "word" /\ HasCompanyPath(LowerWord(text[1].w))

\* The response handling of execute_search: the value self.search_results
\* has after it.  The assignment comes before the len() of the log line,
\* whose TypeError is caught; a str that is not JSON, or whose JSON is no
\* dict, is caught too and leaves the field as it was.
SearchParse(result, old) ==
    IF IsMap(result)
    THEN IF HasKey(result, "success") /\ HasKey(result, "results")
         THEN Get(result, "results", JList(<<>>)) ELSE old
    ELSE IF IsStr(result)
    THEN LET parsed == JsonLoads(result.s) IN
         IF parsed.ok /\ IsMap(parsed.v)
            /\ Truthy(Get(parsed.v, "success", JNull))
            /\ HasKey(parsed.v, "results")
         THEN parsed.v.m["results"] ELSE old
    ELSE old

\* A crawl handling that knows the legacy 'pages' field on a dict only.
CrawlParseNoLegacyStr(result, old) ==
    IF IsMap(result)
    THEN IF HasKey(result, "success") /\ HasKey(result, "results")
         THEN Get(result, "results", JList(<<>>))
         ELSE IF HasKey(result, "success") /\ HasKey(result, "pages")
         THEN Get(result, "pages", JList(<<>>))
         ELSE old
    ELSE IF IsStr(result)
    THEN LET parsed == JsonLoads(result.s) IN
         IF parsed.ok /\ IsMap(parsed.v)
            /\ Truthy(Get(parsed.v, "success", JNull))
            /\ HasKey(parsed.v, "results")
         THEN parsed.v.m["results"] ELSE old
    ELSE old

\* The response handling of execute_crawl: the value of self.crawl_results.
CrawlParse(result, old) ==
    IF IsMap(result)
    THEN IF HasKey(result, "success") /\ HasKey(result, "results")
         THEN Get(result, "results", JList(<<>>))
         ELSE IF HasKey(result, "success") /\ HasKey(result, "pages")
         THEN Get(result, "pages", JList(<<>>))
         ELSE old
    ELSE IF IsStr(result)
    THEN LET parsed == JsonLoads(result.s) IN
         IF ~(parsed.ok /\ IsMap(parsed.v)) THEN old
         ELSE IF Truthy(Get(parsed.v, "success", JNull))
                 /\ HasKey(parsed.v, "results")
         THEN parsed.v.m["results"]
         ELSE IF Truthy(Get(parsed.v, "success", JNull))
                 /\ HasKey(parsed.v, "pages")
         THEN parsed.v.m["pages"]
         ELSE old
    ELSE old

\* A verify handling that stores the results and drops the aggregates.
WithoutAggregates(w, d) == [w EXCEPT !.verify_results = d.m["results"]]

\* The aggregates execute_verify stores from a response d on the 'results'
\* shape; they are stored after the len() of the log line, so not at all
\* when the results have no length.
WithAggregates(w, d) ==
    IF HasLen(d.m["results"])
    THEN [w EXCEPT !.verify_results = d.m["results"],
                   !.best_match = Get(d, "best_match", JNull),
                   !.linkedin_url = Get(d, "linkedin_url", JNull),
                   !.linkedin_found = Get(d, "linkedin", JFalse),
                   !.match_count = Get(d, "match_count", JNum(0))]
    ELSE [w EXCEPT !.verify_results = d.m["results"]]

\* The aggregates of a response d with its list under 'verifications'.
LegacyWithAggregates(w, d) ==
    [w EXCEPT !.verify_results = d.m["verifications"],
              !.best_match = Get(d, "best_match", JNull),
              !.linkedin_url = Get(d, "linkedin_url", JNull),
              !.linkedin_found = Get(d, "linkedin", JFalse),
              !.match_count = Get(d, "match_count", JNum(0))]

\* A verify handling that takes the aggregates from the legacy shape too.
VerifyParseLegacyAggregates(result, w) ==
    LET d == IF IsMap(result) THEN result
             ELSE IF IsStr(result) /\ JsonLoads(result.s).ok
             THEN JsonLoads(result.s).v ELSE JNull
    IN IF ~IsMap(d) \/ ~HasKey(d, "success") THEN w
       ELSE IF HasKey(d, "results") THEN WithAggregates(w, d)
       ELSE IF HasKey(d, "verifications") THEN LegacyWithAggregates(w, d)
       ELSE w

\* The response handling of execute_verify: the fields of the instance.
VerifyParse(result, w) ==
    IF IsMap(result)
    THEN IF HasKey(result, "success") /\ HasKey(result, "results")
         THEN WithAggregates(w, result)
         ELSE IF HasKey(result, "success") /\ HasKey(result, "verifications")
         THEN [w EXCEPT !.verify_results =
                            Get(result, "verifications", JList(<<>>))]
         ELSE w
    ELSE IF IsStr(result)
    THEN LET parsed == JsonLoads(result.s) IN
         IF ~(parsed.ok /\ IsMap(parsed.v)) THEN w
         ELSE IF Truthy(Get(parsed.v, "success", JNull))
                 /\ HasKey(parsed.v, "results")
         THEN WithAggregates(w, parsed.v)
         ELSE IF Truthy(Get(parsed.v, "success", JNull))
                 /\ HasKey(parsed.v, "verifications")
         THEN [w EXCEPT !.verify_results = parsed.v.m["verifications"]]
         ELSE w
    ELSE w

RECURSIVE ExtractFrom(_, _, _)

\* The loop of extract_linkedin_urls from item i on; result.get and
\* url.lower() raise AttributeError on a value that is no dict, no str.
ExtractFrom(items, i, acc) ==
    IF i > Len(items) THEN [raised |-> FALSE, list |-> acc]
    ELSE LET result == items[i] IN
         IF ~IsMap(result) THEN [raised |-> TRUE, list |-> <<>>]
         ELSE LET url == Get(result, "url", JStr(<<>>)) IN
              IF ~IsStr(url) THEN [raised |-> TRUE, list |-> <<>>]
              ELSE ExtractFrom(items, i + 1,
                       IF IsCompanyUrl(url.s) THEN Append(acc, url) ELSE acc)

extract_linkedin_urls(search_results) ==
    IF ~Iterable(search_results) THEN [raised |-> TRUE, list |-> <<>>]
    ELSE ExtractFrom(Elems(search_results), 1, <<>>)

RECURSIVE PagesFrom(_, _, _)

\* The loop of execute_verify that collects the pages with a truthy content
\* and a truthy url; page.get raises on a value that is no dict.
PagesFrom(items, i, acc) ==
    IF i > Len(items) THEN [raised |-> FALSE, list |-> acc]
    ELSE LET page == items[i] IN
         IF ~IsMap(page) THEN [raised |-> TRUE, list |-> <<>>]
         ELSE PagesFrom(items, i + 1,
                  IF Truthy(Get(page, "content", JNull))
                     /\ Truthy(Get(page, "url", JNull))
                  THEN Append(acc, JMap([url |-> page.m["url"],
                                         content |-> page.m["content"]]))
                  ELSE acc)

VerifyPages(crawl_results) ==
    IF ~Iterable(crawl_results) THEN [raised |-> TRUE, list |-> <<>>]
    ELSE PagesFrom(Elems(crawl_results), 1, <<>>)

\* match_count > 0 raises TypeError unless match_count is a number.
Comparable(v) == v.t \in {"num", "bool"}

Positive(v) == IF v.t = "num" THEN v.n > 0 ELSE v.b

\* self.linkedin_found and self.match_count > 0
SuccessOf(w) ==
    IF ~Truthy(w.linkedin_found) THEN w.linkedin_found
    ELSE JBool(Positive(w.match_count))

SuccessRaises(w) == Truthy(w.linkedin_found) /\ ~Comparable(w.match_count)

\* The dict run_complete_workflow returns.
WorkflowResult(w, args, search, crawl, verify) ==
    [company_name |-> args.company_name,
     search |-> search, crawl |-> crawl, verify |-> verify,
     success |-> SuccessOf(w),
     official_website |->
        IF Truthy(args.official_website) THEN args.official_website ELSE Absent,
     linkedin_found |-> IF Truthy(w.linkedin_found) THEN JTrue ELSE Absent,
     linkedin_url |-> IF Truthy(w.linkedin_found) THEN w.linkedin_url ELSE Absent,
     match_count |-> IF Truthy(w.linkedin_found) THEN w.match_count ELSE Absent,
     best_match |-> IF Truthy(w.best_match) THEN w.best_match ELSE Absent]

(***************************************************************************)
(* The runs.  run[r] is the frame of run r of run_complete_workflow: where *)
(* it is suspended, its arguments, its locals search_result and            *)
(* crawl_result, and the tool calls it has made with what each returned.   *)
(* wfRet[r] is how the last run of r ended.                                *)
(***************************************************************************)
NoArgs == [company_name |-> JNull, official_website |-> JNull]

IdleRun ==
    [pc |-> "idle", args |-> NoArgs, search |-> Unset, crawl |-> Unset,
     calls |-> <<>>]

NoWfRet ==
    [status |-> "none", by |-> "none", result |-> Unset, calls |-> <<>>,
     linkedin_found |-> Unset, match_count |-> Unset]

WfIdle ==
    /\ wf = WfInit0
    /\ run = [r \in Runs |-> IdleRun]
    /\ wfRet = [r \in Runs |-> NoWfRet]
    /\ runsStarted = 0

\* The result of a call_tool that has not returned yet, and of one that
\* raised.
Pending == [t |-> "pending"]

Raised == [t |-> "raised"]

\* A call_tool the run makes: the tool, its arguments and, once it is over,
\* what it returned.
ToolCall(tool, arg) == [tool |-> tool, arg |-> arg, result |-> Pending]

\* The calls of a run once its last call, the one it is suspended in, is
\* over with the given result.
Answered(calls, result) == [calls EXCEPT ![Len(calls)].result = result]

\* The run r ends with an exception: by a call_tool that raised, or by the
\* shape of a value the code did not expect.
RunRaises(r, w, by, calls) ==
    /\ wf' = w
    /\ run' = [run EXCEPT ![r] = IdleRun]
    /\ wfRet' = [wfRet EXCEPT ![r] =
                    [NoWfRet EXCEPT !.status = "raised", !.by = by,
                                    !.calls = calls]]

\* Lines 398-420: the run r returns its WorkflowResult, or raises in the
\* comparison of line 404.
Finish(r, w, search, crawl, verify, calls) ==
    IF SuccessRaises(w) THEN RunRaises(r, w, "shape", calls)
    ELSE /\ wf' = w
         /\ run' = [run EXCEPT ![r] = IdleRun]
         /\ wfRet' = [wfRet EXCEPT ![r] =
                [status |-> "value", by |-> "none",
                 result |-> WorkflowResult(w, run[r].args, search, crawl, verify),
                 calls |-> calls,
                 linkedin_found |-> w.linkedin_found,
                 match_count |-> w.match_count]]

\* verify_args of execute_verify
VerifyArgs(args, pages) ==
    IF Truthy(args.official_website)
    THEN JMap([company_name |-> args.company_name, pages |-> JList(pages),
               official_website |-> args.official_website])
    ELSE JMap([company_name |-> args.company_name, pages |-> JList(pages)])

\* execute_verify up to its call_tool: the stage is skipped without crawl
\* results and without a page that has content, and raises on crawl results
\* that are no list of dicts.
VerifyStage(r, w, search, crawl, calls) ==
    IF ~Truthy(w.crawl_results)
    THEN Finish(r, w, search, crawl, JList(<<>>), calls)
    ELSE LET pages == VerifyPages(w.crawl_results) IN
         IF pages.raised THEN RunRaises(r, w, "shape", calls)
         ELSE IF pages.list = <<>>
         THEN Finish(r, w, search, crawl, JList(<<>>), calls)
         ELSE /\ wf' = w
              /\ run' = [run EXCEPT ![r].pc = "verify",
                                    ![r].search = search,
                                    ![r].crawl = crawl,
                                    ![r].calls = Append(calls,
                                        ToolCall("verify_multiple_contents",
                                            VerifyArgs(run[r].args, pages.list)))]
              /\ UNCHANGED wfRet

\* A crawl stage that calls the tool with whatever list it is given.
CrawlStageUnguarded(r, w, search, calls) ==
    LET linkedin_urls == extract_linkedin_urls(w.search_results) IN
    IF linkedin_urls.raised THEN RunRaises(r, w, "shape", calls)
    ELSE /\ wf' = w
         /\ run' = [run EXCEPT ![r].pc = "crawl",
                               ![r].search = search,
                               ![r].calls = Append(calls,
                                   ToolCall("crawl_multiple_pages",
                                       JMap([urls |-> JList(linkedin_urls.list)])))]
         /\ UNCHANGED wfRet

\* extract_linkedin_urls, then execute_crawl up to its call_tool: without a
\* URL the stage returns an empty list and leaves self.crawl_results alone.
CrawlStage(r, w, search, calls) ==
    LET linkedin_urls == extract_linkedin_urls(w.search_results) IN
    IF linkedin_urls.raised THEN RunRaises(r, w, "shape", calls)
    ELSE IF linkedin_urls.list = <<>>
    THEN VerifyStage(r, w, search, JList(<<>>), calls)
    ELSE /\ wf' = w
         /\ run' = [run EXCEPT ![r].pc = "crawl",
                               ![r].search = search,
                               ![r].calls = Append(calls,
                                   ToolCall("crawl_multiple_pages",
                                       JMap([urls |-> JList(linkedin_urls.list)])))]
         /\ UNCHANGED wfRet

\* run_complete_workflow is called: lines 381-384, then execute_search up
\* to its call_tool.
run_complete_workflow(r) ==
    /\ run[r].pc = "idle"
    /\ runsStarted < MaxRuns
    /\ \E args \in ArgSets :
          run' = [run EXCEPT ![r] =
                    [IdleRun EXCEPT !.pc = "search", !.args = args,
                        !.calls = <<ToolCall("search_company",
                            JMap([company_name |-> args.company_name]))>>]]
    /\ wf' = [wf EXCEPT !.best_match = JNull, !.linkedin_url = JNull,
                        !.linkedin_found = JFalse, !.match_count = JNum(0)]
    /\ wfRet' = [wfRet EXCEPT ![r] = NoWfRet]
    /\ runsStarted' = runsStarted + 1
    /\ UNCHANGED <<clientVars, runVars, normVars>>

\* The call_tool of execute_search returns: the rest of execute_search and
\* the run up to its next call_tool.
execute_search_of(r, returns) ==
    /\ run[r].pc = "search"
    /\ \E result \in returns :
          LET w == [wf EXCEPT !.search_results = SearchParse(result, @)] IN
          CrawlStage(r, w, w.search_results, Answered(run[r].calls, result))
    /\ UNCHANGED <<runsStarted, clientVars, runVars, normVars>>

\* The call_tool of execute_crawl returns.
execute_crawl_of(r, returns) ==
    /\ run[r].pc = "crawl"
    /\ \E result \in returns :
          LET w == [wf EXCEPT !.crawl_results = CrawlParse(result, @)] IN
          VerifyStage(r, w, run[r].search, w.crawl_results,
                      Answered(run[r].calls, result))
    /\ UNCHANGED <<runsStarted, clientVars, runVars, normVars>>

\* The call_tool of execute_verify returns.
execute_verify_of(r, returns) ==
    /\ run[r].pc = "verify"
    /\ \E result \in returns :
          LET w == VerifyParse(result, wf) IN
          Finish(r, w, run[r].search, run[r].crawl, w.verify_results,
                 Answered(run[r].calls, result))
    /\ UNCHANGED <<runsStarted, clientVars, runVars, normVars>>

execute_search(r) == execute_search_of(r, SearchReturns)

execute_crawl(r) == execute_crawl_of(r, CrawlReturns)

execute_verify(r) == execute_verify_of(r, VerifyReturns)

\* Stages that catch the failure of call_tool and go on without a result.
StageCatchesFailure(r) ==
    \/ execute_search_of(r, {Raised})
    \/ execute_crawl_of(r, {Raised})
    \/ execute_verify_of(r, {Raised})

\* The call_tool a run is suspended in raises; no stage catches it.
call_tool_raises(r) ==
    /\ run[r].pc \in {"search", "crawl", "verify"}
    /\ RunRaises(r, wf, "call_tool", Answered(run[r].calls, Raised))
    /\ UNCHANGED <<runsStarted, clientVars, runVars, normVars>>

Next ==
    \/ \E t \in Callers :
          \/ aenter(t)
          \/ aenter_spawn_fails(t)
          \/ initialize(t)
          \/ list_tools(t)
          \/ call_tool(t)
          \/ invalidate_tools_cache(t)
          \/ read_line(t)
          \/ timeout(t)
          \/ stderr_read(t)
          \/ aexit(t)
          \/ aexit_done(t)
    \/ \E c \in Children :
          \/ child_respond(c)
          \/ child_stderr_write(c)
          \/ child_stderr_close(c)
          \/ child_exit(c)

vars == <<clientVars, runVars, normVars, wfVars>>

Init == ClientInit /\ NormIdle /\ WfIdle

Spec == Init /\ [][Next]_vars

\* What the event loop guarantees: a coroutine that can resume does, and
\* the deadline of wait_for does expire.  Nothing is promised of the child.
Fairness ==
    \A t \in Callers :
        /\ WF_vars(read_line(t))
        /\ WF_vars(timeout(t))
        /\ WF_vars(stderr_read(t))
        /\ WF_vars(aexit_done(t))

FairSpec == Spec /\ Fairness

\* Two callers whose calls overlap at their suspensions, on a child that
\* answers every request with a well-formed frame and stays up.
ConcNext ==
    \/ \E t \in Tasks :
          \/ aenter(t)
          \/ initialize(t)
          \/ list_tools(t)
          \/ call_tool(t)
          \/ read_line(t)
          \/ timeout(t)
          \/ stderr_read(t)
          \/ aexit(t)
          \/ aexit_done(t)
    \/ \E c \in Children :
          \/ child_answers(c)
          \/ child_stderr_write(c)

ConcSpec == Init /\ [][ConcNext]_vars

(***************************************************************************)
(* The decoded results the normalisation is applied to.                    *)
(***************************************************************************)
\* Payloads a tool encodes into the text of a content entry.
Payloads ==
    { JMap([success |-> JTrue, results |-> JList(<<>>)]), JNum(1), JNull }

\* Values of an entry's 'text': encoded payloads, text that is not JSON,
\* the empty string, and values that are not strings.
TextValues ==
    { JStr(JsonDumps(p)) : p \in Payloads }
        \cup { PyStr("oops"), JStr(<<>>), JNum(5), JNum(0) }

\* Entries of a 'content' list.
Entries ==
    { JMap([type |-> PyStr("text"), text |-> x]) : x \in TextValues }
        \cup { JMap([type |-> PyStr("text")]),
               JMap([type |-> PyStr("image"),
                     text |-> JStr(JsonDumps(JNum(1)))]),
               JMap([text |-> JStr(JsonDumps(JNum(1)))]),
               JNum(1) }

ContentLists ==
    UNION { [1..n -> Entries] : n \in 0..MaxContentLen }

RawResults ==
    { JNull, JNum(7), PyStr("oops"), JList(<<>>), JMap(EmptyMap),
      JMap([success |-> JTrue, results |-> JList(<<>>)]),
      JMap([content |-> JNull]), JMap([content |-> PyStr("oops")]) }
        \cup { JMap([content |-> JList(c)]) : c \in ContentLists }

(***************************************************************************)
(* NormSpec: call_tool's normalisation applied to one decoded result.      *)
(***************************************************************************)
NormInit ==
    /\ normIn \in RawResults /\ normOut = JNull /\ normDone = FALSE
    /\ ClientInit /\ cache_tools_list = FALSE
    /\ WfIdle

\* call_tool, from the return of _send_request to its own return.
call_tool_normalize ==
    /\ ~normDone
    /\ normOut' = Normalize(normIn)
    /\ normDone' = TRUE
    /\ UNCHANGED <<normIn, clientVars, runVars, wfVars>>

NormNext == call_tool_normalize

NormSpec == NormInit /\ [][NormNext]_vars

(***************************************************************************)
(* WfSpec: runs of the workflow, one after another, on one instance.       *)
(***************************************************************************)
WfNext ==
    \/ \E r \in SeqRuns : run_complete_workflow(r)
    \/ \E r \in SeqRuns : execute_search(r)
    \/ \E r \in SeqRuns : execute_crawl(r)
    \/ \E r \in SeqRuns : execute_verify(r)
    \/ \E r \in SeqRuns : call_tool_raises(r)

WfInit == ClientInit /\ cache_tools_list /\ NormIdle /\ WfIdle

WfSpec == WfInit /\ [][WfNext]_vars

\* Two runs on one instance, interleaved at their call_tool suspensions.
\* The tools answer a found company or nothing.
FoundOrNot(returns) ==
    { v \in returns :
        \/ v = JNull
        \/ /\ IsMap(v) /\ HasKey(v, "results") /\ Truthy(v.m["success"])
           /\ ~HasKey(v, "pages")
           /\ v.m["results"] \in {JList(<<>>), JList(<<JMap([url |-> UrlAcme])>>),
                                   JList(<<Page>>), JList(<<Verdict>>)}
           /\ Get(v, "linkedin_url", UrlAcme) = UrlAcme
           /\ Get(v, "match_count", JNum(1)) = JNum(1)
           /\ Get(v, "linkedin", JTrue) = JTrue }

ConcWfNext ==
    \/ \E r \in Runs : run_complete_workflow(r)
    \/ \E r \in Runs : execute_search_of(r, FoundOrNot(SearchReturns))
    \/ \E r \in Runs : execute_crawl_of(r, FoundOrNot(CrawlReturns))
    \/ \E r \in Runs : execute_verify_of(r, FoundOrNot(VerifyReturns))
    \/ \E r \in Runs : call_tool_raises(r)

ConcWfSpec == WfInit /\ [][ConcWfNext]_vars

(***************************************************************************)
(* C10.  The reference function of the claim, written from its words: the  *)
(* first entry that is a mapping of type 'text' with non-empty text        *)
(* decides; its text is replaced by the value it is the JSON encoding of,  *)
(* when there is one.                                                      *)
(***************************************************************************)
RefQualifies(e) ==
    /\ IsMap(e)
    /\ HasKey(e, "type") /\ e.m["type"] = PyStr("text")
    /\ HasKey(e, "text") /\ Truthy(e.m["text"])

\* The values whose JSON encoding is the text; at most one.
RefDecodings(text) ==
    { v \in Payloads : IsStr(text) /\ JsonDumps(v) = text.s }

RefDecode(text) ==
    IF RefDecodings(text) # {} THEN CHOOSE v \in RefDecodings(text) : TRUE
    ELSE text

RefNormalize(R) ==
    IF /\ IsMap(R) /\ HasKey(R, "content") /\ IsList(R.m["content"])
       /\ \E i \in 1..Len(R.m["content"].items) :
              RefQualifies(R.m["content"].items[i])
    THEN LET items == R.m["content"].items
             first == CHOOSE i \in 1..Len(items) :
                         /\ RefQualifies(items[i])
                         /\ \A j \in 1..(i - 1) : ~RefQualifies(items[j])
         IN RefDecode(items[first].m["text"])
    ELSE R

\* C10: for every decoded result R, what call_tool returns is the reference
\* function of R: the decoding of the first non-empty text entry (or its raw
\* text), and R unchanged when there is no such entry.
C10_NormalizeIsReference == normDone => normOut = RefNormalize(normIn)

\* C10's case: two text entries with different non-empty texts, the first
\* of them after an entry with empty text; the first one's decoding is
\* returned.
C10_Witness ==
    /\ normDone
    /\ IsMap(normIn) /\ HasKey(normIn, "content")
    /\ IsList(normIn.m["content"])
    /\ \E i, j \in 1..Len(normIn.m["content"].items) :
          /\ 1 < i /\ i < j
          /\ normIn.m["content"].items[1]
                = JMap([type |-> PyStr("text"), text |-> JStr(<<>>)])
          /\ RefQualifies(normIn.m["content"].items[i])
          /\ RefQualifies(normIn.m["content"].items[j])
          /\ normIn.m["content"].items[i] # normIn.m["content"].items[j]
          /\ normIn.m["content"].items[i].m["text"]
                = JStr(JsonDumps(JNum(1)))
    /\ normOut = JNum(1)

(***************************************************************************)
(* Claims about the client.                                                *)
(***************************************************************************)
\* C3: every value call_tool or list_tools returns was decoded from the
\* child's response to that same request: the id of the line read equals
\* the id of the request written just before the read, also after an
\* earlier call timed out.
C3_ResponseIsForRequest ==
    \A t \in Tasks :
        (/\ ret[t].op \in {"call_tool", "list_tools"}
         /\ ret[t].status = "value" /\ ret[t].io)
            => ret[t].respId = ret[t].reqId

\* C4: a call_tool that has written its request and waits for the response
\* line always comes to an end, whatever the child does with its stderr.
C4_CallToolTerminates ==
    \A t \in Callers :
        (task[t].op = "call_tool" /\ task[t].pc = "await_line")
            ~> (task[t].pc = "idle")

\* C7: the ids of the requests written to the children are strictly
\* increasing in the order of the writes, so no two requests carry the
\* same id, whatever the interleaving of the calls and however they end.
C7_RequestIdsIncrease ==
    \A i, j \in 1..Len(sent) : i < j => sent[i].id < sent[j].id

\* C7's case: an initialize, a tools/list and a tools/call have been
\* written, the last two by callers whose calls overlap.
C7_Witness ==
    /\ Len(sent) = 3
    /\ {sent[i].method : i \in 1..3} = {"initialize", "tools/list", "tools/call"}
    /\ \A t \in Tasks : task[t].pc = "await_line"

\* C8: with caching enabled a list_tools call that follows a list_tools
\* call that returned makes no round trip, whatever that call returned, and
\* one that follows invalidate_tools_cache makes one.
C8_SecondListIsCached ==
    \A t \in Tasks :
        (cache_tools_list /\ ret[t].op = "list_tools" /\ ret[t].status = "value")
            => /\ ret[t].after = "list_ok" => ~ret[t].io
               /\ ret[t].after = "invalidate" => ret[t].io

\* C9: when start has raised after spawning a child, the client does not
\* still hold that child running.
C9_FailedStartReleasesChild ==
    \A t \in Tasks :
        (ret[t].op = "start" /\ ret[t].status = "raised" /\ ret[t].proc # NoProc)
            => ~(process = ret[t].proc /\ child[ret[t].proc].state = "running")

(***************************************************************************)
(* The workflow claims, over WfSpec.                                       *)
(***************************************************************************)
\* A tool the run whose calls are given has called.
Called(calls, tool) == \E i \in 1..Len(calls) : calls[i].tool = tool

\* C1: a run that has just started, and is suspended in its first call_tool,
\* finds every accumulator of the instance reset: the three result lists
\* empty, no best match, no LinkedIn URL, the found flag false and the match
\* count 0, whatever the runs before it left.
C1_AccumulatorsResetAtStart ==
    \A r \in Runs :
        run[r].pc = "search" =>
            /\ wf.search_results = JList(<<>>)
            /\ wf.crawl_results = JList(<<>>)
            /\ wf.verify_results = JList(<<>>)
            /\ wf.best_match = JNull
            /\ wf.linkedin_url = JNull
            /\ wf.linkedin_found = JFalse
            /\ wf.match_count = JNum(0)

\* C2: a run that returned with an empty search result list has called
\* neither crawl_multiple_pages nor verify_multiple_contents, returns empty
\* crawl and verify lists, and has success false.
C2_EmptySearchSkipsTheRest ==
    \A r \in Runs :
        (wfRet[r].status = "value" /\ wfRet[r].result.search = JList(<<>>)) =>
            /\ ~Called(wfRet[r].calls, "crawl_multiple_pages")
            /\ ~Called(wfRet[r].calls, "verify_multiple_contents")
            /\ wfRet[r].result.crawl = JList(<<>>)
            /\ wfRet[r].result.verify = JList(<<>>)
            /\ wfRet[r].result.success = JFalse

\* C5: a run raises only when one of its call_tool invocations raised; no
\* value a tool returns makes the run raise.
C5_RaisesOnlyWhenCallToolRaises ==
    \A r \in Runs : wfRet[r].status = "raised" => wfRet[r].by = "call_tool"

\* C6: the success of a returned WorkflowResult is the boolean true when the
\* found flag taken from the verify response is true and the match count
\* taken from it is a number above 0, and the boolean false otherwise.
C6_SuccessIsFoundAndPositive ==
    \A r \in Runs :
        wfRet[r].status = "value" =>
            wfRet[r].result.success =
                JBool(/\ wfRet[r].linkedin_found = JTrue
                      /\ IsNum(wfRet[r].match_count)
                      /\ wfRet[r].match_count.n > 0)

\* The calls of the run r, while it runs and once it is over.
RunCalls(r) == IF run[r].pc = "idle" THEN wfRet[r].calls ELSE run[r].calls

\* What the call of the tool returned, in the calls of a run that called it.
CallResult(calls, tool) ==
    LET i == CHOOSE j \in 1..Len(calls) : calls[j].tool = tool IN
    calls[i].result

\* The mapping d with its list under 'results': the list it has there, else
\* the list it has under 'pages'.
PagesToResults(d) ==
    IF ~HasKey(d, "pages") THEN d
    ELSE LET rest == DOMAIN d.m \ {"pages"} IN
         IF HasKey(d, "results") THEN JMap([k \in rest |-> d.m[k]])
         ELSE JMap([k \in rest \cup {"results"} |->
                       IF k = "results" THEN d.m["pages"] ELSE d.m[k]])

\* The response with its list under 'results', in the shape it came in.
AsResults(result) ==
    IF IsMap(result) THEN PagesToResults(result)
    ELSE IF IsStr(result) /\ JsonLoads(result.s).ok
            /\ IsMap(JsonLoads(result.s).v)
    THEN JStr(JsonDumps(PagesToResults(JsonLoads(result.s).v)))
    ELSE result

\* C11: whenever the crawl call of a run returns, the crawl results the
\* handling leaves are those it would leave for the same response with its
\* list under 'results' instead of 'pages' ('results' winning when both are
\* there), for a mapping and for a JSON string alike.
C11_PagesAsResults ==
    [][\A r \in Runs :
          (/\ run[r].pc = "crawl"
           /\ run'[r].pc # "crawl"
           /\ CallResult(RunCalls(r)', "crawl_multiple_pages") # Raised)
          => wf'.crawl_results =
                CrawlParse(AsResults(CallResult(RunCalls(r)',
                                                "crawl_multiple_pages")),
                           wf.crawl_results)]_vars

\* A run whose crawl call returned the JSON string of a response with a
\* page under 'pages' alone, and which holds that page as its crawl results.
C11_Witness ==
    \E r \in Runs :
        /\ run[r].pc = "verify"
        /\ CallResult(run[r].calls, "crawl_multiple_pages") =
              JStr(JsonDumps(JMap([success |-> JTrue,
                                   pages |-> JList(<<Page>>)])))
        /\ wf.crawl_results = JList(<<Page>>)

\* The tools a run called, in the order of its calls.
ToolsOf(calls) == [i \in 1..Len(calls) |-> calls[i].tool]

\* A tool of the calls returned one of the given values.
Returned(calls, tool, values) ==
    \E i \in 1..Len(calls) :
        calls[i].tool = tool /\ calls[i].result \in values

\* The responses of the end-to-end scenario: a search result with a LinkedIn
\* company URL, a crawled page with url and content, and a verify response
\* on the 'results' shape with the flag true, a match count of 1 and a best
\* match of score 9.
ScenarioSearch ==
    { JMap([success |-> JTrue, results |-> JList(<<JMap([url |-> UrlAcme])>>)]),
      JStr(JsonDumps(JMap([success |-> JTrue,
                           results |-> JList(<<JMap([url |-> UrlAcmeUpper])>>)]))) }

ScenarioCrawl ==
    { JMap([success |-> JTrue, results |-> JList(<<Page>>)]),
      JStr(JsonDumps(JMap([success |-> JTrue, results |-> JList(<<Page>>)]))) }

ScenarioVerify ==
    { JMap([success |-> JTrue, results |-> JList(<<Verdict>>),
            linkedin |-> JTrue, match_count |-> JNum(1),
            best_match |-> Verdict, linkedin_url |-> UrlAcme]),
      JStr(JsonDumps(JMap([success |-> JTrue, results |-> JList(<<Verdict>>),
                           linkedin |-> JTrue, match_count |-> JNum(1),
                           best_match |-> Verdict]))) }

InScenario(calls) ==
    /\ Returned(calls, "search_company", ScenarioSearch)
    /\ Returned(calls, "crawl_multiple_pages", ScenarioCrawl)
    /\ Returned(calls, "verify_multiple_contents", ScenarioVerify)

\* C12: a run in which search returned a LinkedIn company URL, crawl a page
\* with url and content, and verify the flag true with a match count of 1
\* and a best match of score 9, returns a WorkflowResult with success true,
\* linkedin_found true and that best match, after calling search, crawl and
\* verify once each, in that order.
C12_EndToEndSuccess ==
    \A r \in Runs :
        (wfRet[r].status # "none" /\ InScenario(wfRet[r].calls)) =>
            /\ wfRet[r].status = "value"
            /\ wfRet[r].result.success = JTrue
            /\ wfRet[r].result.linkedin_found = JTrue
            /\ wfRet[r].result.best_match = Verdict
            /\ wfRet[r].result.best_match.m["match_score"] = JNum(9)
            /\ ToolsOf(wfRet[r].calls) =
                  <<"search_company", "crawl_multiple_pages",
                    "verify_multiple_contents">>

\* The scenario has run on an instance that had run before, with a JSON
\* string from verify.
C12_Witness ==
    \E r \in Runs :
        /\ wfRet[r].status = "value"
        /\ InScenario(wfRet[r].calls)
        /\ IsStr(CallResult(wfRet[r].calls, "verify_multiple_contents"))
        /\ runsStarted = 2

\* C13: a request that fails on a line that is no JSON raises an exception
\* whose class is not the class raised for a timeout, for the end of the
\* stream or for an error frame, and which holds the line that was read.
C13_ProtocolErrorIsDistinct ==
    \A t \in Tasks :
        (ret[t].status = "raised" /\ ret[t].err = "parse") =>
            /\ \A e \in {"timeout", "eof", "error_frame"} :
                  ret[t].exc.type # ExceptionOf(e).type
            /\ "line" \in ret[t].exc.carries

\* The JSON-encoded string of the payload P.
AsString(P) == JStr(JsonDumps(P))

\* The call the run r was suspended in, for the given tool at the given
\* place, returns a mapping in this step.
ReturnsMapping(r, pc, tool) ==
    /\ run[r].pc = pc
    /\ run'[r].pc # pc
    /\ IsMap(CallResult(RunCalls(r)', tool))

\* C14: whenever a stage's call returns a mapping P, the stage leaves what it
\* would leave had the call returned the JSON-encoded string of P: the
\* search results, the crawl results, and the verify results with the
\* aggregates.
C14_MappingAsString ==
    [][\A r \in Runs :
          /\ ReturnsMapping(r, "search", "search_company") =>
                wf'.search_results =
                    SearchParse(AsString(CallResult(RunCalls(r)',
                                                    "search_company")),
                                wf.search_results)
          /\ ReturnsMapping(r, "crawl", "crawl_multiple_pages") =>
                wf'.crawl_results =
                    CrawlParse(AsString(CallResult(RunCalls(r)',
                                                   "crawl_multiple_pages")),
                               wf.crawl_results)
          /\ ReturnsMapping(r, "verify", "verify_multiple_contents") =>
                wf' = VerifyParse(AsString(CallResult(RunCalls(r)',
                                              "verify_multiple_contents")),
                                  wf)]_vars

\* The aggregates a run holds when only its own calls have acted on them:
\* those of lines 381-384, then those its own verify response sets.
OwnAggregates(calls) ==
    LET fresh == [WfInit0 EXCEPT !.best_match = JNull, !.linkedin_url = JNull,
                                 !.linkedin_found = JFalse,
                                 !.match_count = JNum(0)]
    IN IF /\ Called(calls, "verify_multiple_contents")
          /\ CallResult(calls, "verify_multiple_contents") # Raised
       THEN VerifyParse(CallResult(calls, "verify_multiple_contents"), fresh)
       ELSE fresh

\* C15: the found flag, the match count, the best match and the success of a
\* returned WorkflowResult are those of the run's own verify response, and
\* those of a run without one when it received none, whatever another run
\* on the instance did meanwhile.
C15_ResultFromOwnResponses ==
    \A r \in Runs :
        wfRet[r].status = "value" =>
            LET own == OwnAggregates(wfRet[r].calls) IN
            /\ wfRet[r].linkedin_found = own.linkedin_found
            /\ wfRet[r].match_count = own.match_count
            /\ wfRet[r].result.success = SuccessOf(own)
            /\ wfRet[r].result.best_match =
                  IF Truthy(own.best_match) THEN own.best_match ELSE Absent

\* The place of a tool in the order search, crawl, verify.
Rank(tool) ==
    CASE tool = "search_company" -> 1
      [] tool = "crawl_multiple_pages" -> 2
      [] tool = "verify_multiple_contents" -> 3

\* C16: of the calls of a run only the last can be outstanding, and every
\* call before it has returned (none is pending, none raised); the calls
\* start with search_company and follow the order search, crawl, verify;
\* and crawl_multiple_pages is called with a non-empty list of URLs only.
C16_OneCallAtATimeInOrder ==
    \A r \in Runs :
        LET calls == RunCalls(r) IN
        /\ \A i \in 1..Len(calls) :
              i < Len(calls) => calls[i].result \notin {Pending, Raised}
        /\ Len(calls) > 0 => calls[1].tool = "search_company"
        /\ \A i, j \in 1..Len(calls) :
              i < j => Rank(calls[i].tool) < Rank(calls[j].tool)
        /\ \A i \in 1..Len(calls) :
              calls[i].tool = "crawl_multiple_pages" =>
                  Len(calls[i].arg.m["urls"].items) > 0

\* A run suspended in its third call, the first two having returned.
C16_Witness ==
    \E r \in Runs :
        /\ run[r].pc = "verify"
        /\ ToolsOf(run[r].calls) =
              <<"search_company", "crawl_multiple_pages",
                "verify_multiple_contents">>
        /\ run[r].calls[3].result = Pending
        /\ run[r].calls[2].result # Pending

\* A page with a non-empty url and a non-empty content.
RefForwarded(page) ==
    /\ IsMap(page)
    /\ Truthy(Get(page, "url", JNull))
    /\ Truthy(Get(page, "content", JNull))

\* The pages of a crawl result that are to be verified, in crawl order, each
\* as its url and content.
RefPages(crawl) ==
    IF ~IsList(crawl) THEN <<>>
    ELSE LET kept == SelectSeq(crawl.items, RefForwarded) IN
         [i \in 1..Len(kept) |->
             JMap([url |-> kept[i].m["url"], content |-> kept[i].m["content"]])]

\* C17: a run suspended in verify_multiple_contents has called it with a
\* non-empty pages list, exactly the pages of its crawl stage's result that
\* have a non-empty url and content, in crawl order; and a returned run whose
\* crawl stage's result has no such page has not called the tool and has an
\* empty verify result.
C17_VerifyGetsTheCrawledPages ==
    \A r \in Runs :
        /\ run[r].pc = "verify" =>
              LET pages == run[r].calls[Len(run[r].calls)].arg.m["pages"].items
              IN pages # <<>> /\ pages = RefPages(run[r].crawl)
        /\ (wfRet[r].status = "value"
              /\ RefPages(wfRet[r].result.crawl) = <<>>) =>
              /\ ~Called(wfRet[r].calls, "verify_multiple_contents")
              /\ wfRet[r].result.verify = JList(<<>>)

\* The url values whose lower-cased form contains 'linkedin.com/company/'.
RefCompanyUrls == {UrlAcme, UrlAcmeUpper}

RefIsCandidate(result) ==
    IsMap(result) /\ HasKey(result, "url") /\ result.m["url"] \in RefCompanyUrls

\* The candidates of a list of search results: the url values of those with
\* a company URL, in their order and spelling.
RefCandidates(search) ==
    IF ~IsList(search) THEN <<>>
    ELSE LET kept == SelectSeq(search.items, RefIsCandidate) IN
         [i \in 1..Len(kept) |-> kept[i].m["url"]]

\* The candidates the run went on with after the search results given: the
\* URLs it called crawl_multiple_pages with, none when it did not call it.
CandidatesUsed(calls) ==
    IF Called(calls, "crawl_multiple_pages")
    THEN LET i == CHOOSE j \in 1..Len(calls) :
                      calls[j].tool = "crawl_multiple_pages"
         IN calls[i].arg.m["urls"].items
    ELSE <<>>

\* C18: the candidates extracted from the search results of a run are the
\* url values, in order and as spelled, of the results whose lower-cased url
\* contains 'linkedin.com/company/': the upper-case spelling is selected, a
\* personal profile and a result without a url are not.
C18_CandidatesAreCompanyUrls ==
    \A r \in Runs :
        /\ run[r].pc \in {"crawl", "verify"} =>
              CandidatesUsed(run[r].calls) = RefCandidates(run[r].search)
        /\ wfRet[r].status = "value" =>
              CandidatesUsed(wfRet[r].calls) =
                  RefCandidates(wfRet[r].result.search)

\* A run that crawls the two company pages of search results that also hold
\* a profile and a result without a url.
C18_Witness ==
    \E r \in Runs :
        /\ run[r].pc = "crawl"
        /\ run[r].search = MixedResults
        /\ CandidatesUsed(run[r].calls) = <<UrlAcmeUpper, UrlAcme>>

\* The payload of a response: the mapping itself, or the one its JSON
\* string decodes to.
PayloadOf(result) ==
    IF IsStr(result) /\ JsonLoads(result.s).ok THEN JsonLoads(result.s).v
    ELSE result

\* A successful verify response on the legacy shape: 'verifications' and
\* no 'results'.
IsLegacyVerify(result) ==
    LET d == PayloadOf(result) IN
    /\ IsMap(d)
    /\ HasKey(d, "verifications") /\ ~HasKey(d, "results")
    /\ Get(d, "success", JNull) = JTrue

\* C19: a run whose verify response has the legacy 'verifications' field and
\* no 'results' returns with the verify results taken from that field and
\* with no aggregate: found flag false, match count 0, no best match and
\* success false, whatever aggregates the response holds.
C19_LegacyHasNoAggregates ==
    \A r \in Runs :
        (/\ wfRet[r].status # "none"
         /\ Called(wfRet[r].calls, "verify_multiple_contents")
         /\ IsLegacyVerify(CallResult(wfRet[r].calls,
                                      "verify_multiple_contents"))) =>
            /\ wfRet[r].status = "value"
            /\ wfRet[r].result.verify =
                  PayloadOf(CallResult(wfRet[r].calls,
                      "verify_multiple_contents")).m["verifications"]
            /\ wfRet[r].linkedin_found = JFalse
            /\ wfRet[r].match_count = JNum(0)
            /\ wfRet[r].result.best_match = Absent
            /\ wfRet[r].result.linkedin_found = Absent
            /\ wfRet[r].result.success = JFalse

\* A run returned after a legacy verify response, sent as a JSON string,
\* that holds a true flag, a match count of 1 and a best match.
C19_Witness ==
    \E r \in Runs :
        /\ wfRet[r].status = "value"
        /\ Called(wfRet[r].calls, "verify_multiple_contents")
        /\ LET result == CallResult(wfRet[r].calls, "verify_multiple_contents")
           IN /\ IsStr(result)
              /\ IsLegacyVerify(result)
              /\ PayloadOf(result).m["linkedin"] = JTrue
              /\ PayloadOf(result).m["best_match"] = Verdict
        /\ wfRet[r].result.verify = JList(<<Verdict>>)

(***************************************************************************)
(* More claims on the client, over Spec.                                   *)
(***************************************************************************)
\* The caller t, idle, calls _initialize in this step.
CallsInitialize(t) ==
    /\ task[t].pc = "idle"
    /\ \/ task'[t].op = "initialize"
       \/ ret'[t].op = "initialize" /\ ret'[t] # ret[t]

\* C20: a call of _initialize on a client that has completed its handshake
\* returns at once: no request is written, no line is read, and the request
\* id counter, the tools cache, the process handle and the children are as
\* before.
C20_InitializeTwiceIsNoOp ==
    [][\A t \in Tasks :
          (initialized /\ CallsInitialize(t)) =>
              /\ task'[t].pc = "idle"
              /\ ret'[t].status = "value" /\ ~ret'[t].io
              /\ sent' = sent
              /\ child' = child
              /\ next_request_id' = next_request_id
              /\ tools_cache' = tools_cache
              /\ process' = process
              /\ initialized']_vars

\* _initialize has returned without I/O on a client that holds a child to
\* which requests were written.
C20_Witness ==
    \E t \in Tasks :
        /\ ret[t].op = "initialize" /\ ret[t].status = "value" /\ ~ret[t].io
        /\ initialized
        /\ process # NoProc
        /\ Len(sent) >= 1
        /\ task[t].pc = "idle"

\* The caller t is between the write of a handshake request and the end of
\* its call: __aenter__ or _initialize awaits the response.
InHandshake(t) ==
    task[t].op \in {"start", "initialize"} /\ task[t].pc # "idle"

\* The initialize requests written to the child p so far.
InitializeRequests(p) ==
    {i \in 1..Len(sent) : sent[i].method = "initialize" /\ sent[i].proc = p}

\* C21: at most one caller is in a handshake at a time, and while one is,
\* the child it talks to has been written one initialize request and no
\* other child is running.
C21_OneInitializationInFlight ==
    /\ \A t, u \in Tasks : (InHandshake(t) /\ InHandshake(u)) => t = u
    /\ \A t \in Tasks :
          InHandshake(t) =>
              /\ Cardinality(InitializeRequests(task[t].proc)) <= 1
              /\ Cardinality({c \in Children : child[c].state = "running"}) <= 1

\* Where a caller is while _send_request reads stderr on a failure path.
FailurePcs == {"stderr_eof", "stderr_exc", "stderr_timeout"}

\* The part of C22 that is about what a call may do: a request returns a
\* value only in the step that reads a response line that is JSON and has no
\* 'error' key; a step that times out, reads the end of the stream, a line
\* that is no JSON or an error frame returns no value and leaves the tools
\* cache as it is, and the call can then end only by raising, the cache
\* still unchanged.
ValueOnlyFromAGoodLine ==
    [][\A t \in Tasks :
          /\ (ret'[t] # ret[t] /\ ret'[t].status = "value" /\ ret'[t].io) =>
                /\ task[t].pc = "await_line"
                /\ child[task[t].proc].stdout # <<>>
                /\ Head(child[task[t].proc].stdout).kind
                      \in {"result", "noresult"}
                /\ child'[task[t].proc].stdout =
                      Tail(child[task[t].proc].stdout)
          /\ (task[t].pc = "await_line" /\ task'[t].pc \in FailurePcs) =>
                tools_cache' = tools_cache /\ ret'[t].status # "value"
          /\ (task[t].pc \in FailurePcs /\ task'[t] # task[t]) =>
                /\ tools_cache' = tools_cache
                /\ task'[t].pc = "idle" => ret'[t].status = "raised"]_vars

\* A list_tools on a caching client has raised on an error frame, and the
\* cache is still empty.
RaisedOnErrorFrame ==
    \E t \in Tasks :
        /\ ret[t].op = "list_tools" /\ ret[t].status = "raised"
        /\ ret[t].err = "error_frame"
        /\ cache_tools_list /\ tools_cache = JNull

\* C22: a request that has timed out, read the end of the stream, a line
\* that is no JSON or an error frame raises: its call ends, with an
\* exception and no value.
C22_FailureRaises ==
    \A t \in Callers :
        (task[t].pc \in FailurePcs) ~> (ret[t].status = "raised")

(***************************************************************************)
(* More claims on the workflow.                                            *)
(***************************************************************************)
\* C23: a call_tool that raised is the last call of its run, and the run
\* has ended by raising that failure, without a WorkflowResult.
C23_CallToolFailureAbortsRun ==
    \A r \in Runs :
        LET calls == RunCalls(r) IN
        \A i \in 1..Len(calls) :
            calls[i].result = Raised =>
                /\ i = Len(calls)
                /\ run[r].pc = "idle"
                /\ wfRet[r].status = "raised"
                /\ wfRet[r].by = "call_tool"
                /\ wfRet[r].result = Unset

\* A run has ended on the failure of its crawl call, after a search call
\* that returned.
C23_Witness ==
    \E r \in Runs :
        /\ wfRet[r].status = "raised"
        /\ ToolsOf(wfRet[r].calls) = <<"search_company", "crawl_multiple_pages">>
        /\ wfRet[r].calls[2].result = Raised
        /\ wfRet[r].calls[1].result # Raised

(***************************************************************************)
(* More claims on the client.                                              *)
(***************************************************************************)
\* The step is the return of a tools/list request of t, made with caching
\* enabled, and stores the result it returns.
StoresListing(t) ==
    /\ task[t].op = "list_tools"
    /\ task[t].pc = "await_line"
    /\ ret'[t].op = "list_tools"
    /\ ret'[t].status = "value"
    /\ ret'[t].io
    /\ cache_tools_list
    /\ tools_cache' = ret'[t].raw

\* The step is an invalidate_tools_cache of t.
Invalidates(t) ==
    /\ task[t].pc = "idle"
    /\ ret'[t].op = "invalidate"
    /\ tools_cache' = JNull

\* C24: the tool cache changes only in the return of a tools/list request
\* made with caching enabled, which stores the result, and in
\* invalidate_tools_cache, which clears it; with caching disabled it is
\* never populated.
C24_CacheChangesOnlyByListAndInvalidate ==
    [][/\ tools_cache' # tools_cache =>
              \E t \in Tasks : StoresListing(t) \/ Invalidates(t)
       /\ ~cache_tools_list =>
              (tools_cache = JNull /\ tools_cache' = JNull)]_vars

\* The cache is populated and the client has since been closed: the cached
\* list outlives the child it came from.
C24_Witness ==
    /\ cache_tools_list
    /\ Truthy(tools_cache)
    /\ process = NoProc
    /\ \E t \in Callers : ret[t].op = "close" /\ ret[t].status = "value"

\* The step ends a close of t.
CloseEnds(t) ==
    /\ ret'[t].op = "close"
    /\ task'[t].pc = "idle"
    /\ \/ task[t].pc = "wait_exit"
       \/ task[t].pc = "idle" /\ ret'[t] # ret[t]

\* C25: a close ends by returning, never by raising, and leaves no process
\* handle; a close made with no process held changes nothing of the client
\* or of any child.
C25_CloseIsIdempotent ==
    [][\A t \in Tasks :
          CloseEnds(t) =>
              /\ ret'[t].status = "value"
              /\ process' = NoProc
              /\ (task[t].pc = "idle" /\ process = NoProc) =>
                     UNCHANGED <<clientVars, child, sent>>]_vars

\* A client that was started and initialized has been closed.
C25_Witness ==
    /\ process = NoProc
    /\ initialized
    /\ \E t \in Callers :
          ret[t].op = "close" /\ ret[t].status = "value" /\ Idle(t)

\* C26: every tools/list or tools/call request written to a child comes
\* after an initialize request written to that same child.
C26_InitializeBeforeTools ==
    \A i \in 1..Len(sent) :
        sent[i].method \in {"tools/list", "tools/call"} =>
            \E j \in 1..(i - 1) :
                /\ sent[j].method = "initialize"
                /\ sent[j].proc = sent[i].proc

\* What a tool returned to the run whose calls are given, as a mapping:
\* the payload of its response, or null when the tool was not called or its
\* call has not returned.
Answer(calls, tool) ==
    IF Called(calls, tool) /\ CallResult(calls, tool) \notin {Pending, Raised}
    THEN PayloadOf(CallResult(calls, tool))
    ELSE JNull

\* The search response holds a LinkedIn company URL.
FoundCompanyUrl(d) == IsMap(d) /\ RefCandidates(Get(d, "results", JNull)) # <<>>

\* The crawl response holds a page with a non-empty url and content.
CrawledAPage(d) ==
    /\ IsMap(d)
    /\ \/ RefPages(Get(d, "results", JNull)) # <<>>
       \/ RefPages(Get(d, "pages", JNull)) # <<>>

\* The verify response is on the 'results' shape, with the flag true (any
\* value that counts as true) and a positive match count.
VerifiedOnResults(d) ==
    /\ IsMap(d)
    /\ HasKey(d, "results")
    /\ Truthy(Get(d, "linkedin", JFalse))
    /\ Comparable(Get(d, "match_count", JNum(0)))
    /\ Positive(Get(d, "match_count", JNum(0)))

\* C27: a run that returned success true has itself received a search
\* response with a LinkedIn company URL, a crawl response with a page of
\* non-empty url and content, and a verify response on the 'results' shape
\* with the flag true and a positive match count.
C27_SuccessOnlyFromOwnStages ==
    \A r \in Runs :
        (wfRet[r].status = "value" /\ wfRet[r].result.success = JTrue) =>
            /\ FoundCompanyUrl(Answer(wfRet[r].calls, "search_company"))
            /\ CrawledAPage(Answer(wfRet[r].calls, "crawl_multiple_pages"))
            /\ VerifiedOnResults(Answer(wfRet[r].calls,
                                        "verify_multiple_contents"))

\* The step is a call_tool or a list_tools that t makes while the client
\* holds no process.
CallsWithoutProcess(t) ==
    /\ Idle(t)
    /\ process = NoProc
    /\ \A u \in Tasks \ {t} : task'[u] = task[u] /\ ret'[u] = ret[u]
    /\ \/ task'[t].op \in {"call_tool", "list_tools"}
       \/ /\ ret'[t].op \in {"call_tool", "list_tools"}
          /\ ret'[t] # ret[t] \/ next_request_id' # next_request_id

\* C28: a call_tool or list_tools made while the client holds no process
\* ends at once and writes nothing to any child; with caching enabled and a
\* populated cache list_tools returns the cached list and takes no request
\* id, and otherwise the call raises the not-started error and the
\* request-id counter has advanced by one.
C28_NoProcessRaisesAfterTakingAnId ==
    [][\A t \in Tasks :
          CallsWithoutProcess(t) =>
              /\ task'[t].pc = "idle"
              /\ sent' = sent
              /\ child' = child
              /\ IF /\ ret'[t].op = "list_tools"
                    /\ cache_tools_list /\ Truthy(tools_cache)
                 THEN /\ ret'[t].status = "value"
                      /\ ret'[t].value = tools_cache
                      /\ next_request_id' = next_request_id
                 ELSE /\ ret'[t].status = "raised"
                      /\ ret'[t].exc.type = "RuntimeError"
                      /\ ~ret'[t].io
                      /\ next_request_id' = next_request_id + 1]_vars

\* After a start, a listing that was cached and a close, a call_tool has
\* raised for want of a process and the counter stands past its id.
C28_Witness ==
    \E t \in Callers :
        /\ process = NoProc
        /\ Truthy(tools_cache)
        /\ ret[t].op = "call_tool"
        /\ ret[t].status = "raised"
        /\ ret[t].err = "not_started"
        /\ next_request_id = ret[t].reqId + 1

====
